---- MODULE Spec2Model ----
(***************************************************************************)
(* Model of preprocessing_profiling/plot.py: generate_report_visualizations *)
(* and the missing_matrix / yellowbrick_to_img helpers it calls.           *)
(*                                                                         *)
(* A DataFrame is a record [columns, rows]; a row carries its index label  *)
(* (idx) and its values in column order, so that "the last two columns"    *)
(* (iloc[:, -2], iloc[:, -1]) and index-aligned column assignment are      *)
(* computed the way pandas computes them.  Feature columns are left out:   *)
(* the pipeline never inspects them, it only hands whole frames to the     *)
(* renderer.  An image is modelled by what was rendered (the renderer is   *)
(* a deterministic function of the frame it is handed).                    *)
(***************************************************************************)
EXTENDS Naturals, Integers, Sequences, FiniteSets, TLC

\* ---------------------------------------------------------------- bounds
\* Total number of rows over the report's datasets (baseline result plus
\* one test-sized frame per strategy).
MaxTotalRows == 2
\* Rows of the frame used when the pair extraction is exercised on its own.
MaxDfRows == 4
\* Calls of generate_report_visualizations made by the caller.
MaxCalls == 2

\* Class labels (numeric classes, as scikit-learn classifiers are given).
Labels == {0, 1}
\* Class labels of the frames used when the extraction is exercised alone.
PairLabels == {0, 1, 2}
\* Keys of report['strategy_classifications'], in dict (insertion) order.
StrategyNames == <<"s1", "s2">>

\* ------------------------------------------------------------ conversions
\* str(label) for an integer class label.
Str(l) == CASE l = 0 -> "0" [] l = 1 -> "1" [] l = 2 -> "2" [] OTHER -> "?"

\* str(pair[0])+"→"+str(pair[1])
PairName(pair) == Str(pair[1]) \o "→" \o Str(pair[2])

\* -------------------------------------------------------------- DataFrame
\* df.iloc[:, -1] and df.iloc[:, -2] of one row.
Iloc1(r) == r.vals[Len(r.vals)]
Iloc2(r) == r.vals[Len(r.vals) - 1]

\* A frame with index 1..n and the given values, row by row.
Frame(cols, v) ==
  [columns |-> cols, rows |-> [i \in 1..Len(v) |-> [idx |-> i, vals |-> v[i]]]]

\* Position of a column name in a column list (0 when absent).
ColPos(cols, name) ==
  IF \E i \in 1..Len(cols) : cols[i] = name
  THEN CHOOSE i \in 1..Len(cols) : cols[i] = name
  ELSE 0

\* The column read by row position instead of by index label.
ColumnByPosition(f, name) ==
  [x \in 1..Len(f.rows) |-> f.rows[x].vals[ColPos(f.columns, name)]]

\* df[name]: the column as a Series, a mapping from index label to value.
Column(f, name) ==
  [x \in {f.rows[i].idx : i \in 1..Len(f.rows)} |->
     LET i == CHOOSE j \in 1..Len(f.rows) : f.rows[j].idx = x
     IN  f.rows[i].vals[ColPos(f.columns, name)]]

\* df[name] = series: the values are aligned on the index labels of df; an
\* existing column is overwritten in place, a new one is appended last.
SetColumn(f, name, series) ==
  LET p == ColPos(f.columns, name) IN
  IF p = 0
  THEN [columns |-> Append(f.columns, name),
        rows |-> [i \in 1..Len(f.rows) |->
                    [f.rows[i] EXCEPT !.vals = Append(@, series[f.rows[i].idx])]]]
  ELSE [columns |-> f.columns,
        rows |-> [i \in 1..Len(f.rows) |->
                    [f.rows[i] EXCEPT !.vals[p] = series[f.rows[i].idx]]]]

\* df = report['dataframe']['test'] without .copy(): the same object.
CopyAlias(f) == [alias |-> TRUE, frame |-> f]

\* df.copy(): a new object holding the same data.  alias tells whether the
\* object returned is the one passed in (writes through it reach the source).
Copy(f) == [alias |-> FALSE, frame |-> f]

\* df[df.iloc[:, -1] != df.iloc[:, -2]]
Mismatched(rows) == SelectSeq(rows, LAMBDA r : Iloc1(r) # Iloc2(r))

\* .iloc[:, -2:]
LastTwo(rows) == [i \in 1..Len(rows) |-> <<Iloc2(rows[i]), Iloc1(rows[i])>>]

\* .drop_duplicates(keep='last')
RECURSIVE DropDuplicatesKeepLast(_)
DropDuplicatesKeepLast(q) ==
  IF q = <<>> THEN <<>>
  ELSE LET rest == DropDuplicatesKeepLast(Tail(q))
       IN  IF \E i \in 1..Len(rest) : rest[i] = Head(q)
           THEN rest
           ELSE <<Head(q)>> \o rest

\* .drop_duplicates(): keeps the first occurrence of each value.
RECURSIVE DropDuplicates(_)
DropDuplicates(q) ==
  IF q = <<>> THEN <<>>
  ELSE LET init == DropDuplicates(SubSeq(q, 1, Len(q) - 1))
           last == q[Len(q)]
       IN  IF \E i \in 1..Len(init) : init[i] = last
           THEN init
           ELSE Append(init, last)

\* The same selection without .drop_duplicates()
CombinationsWithDuplicates(f) == LastTwo(Mismatched(f.rows))

\* combinations = np.array(df[...].iloc[:, -2:].drop_duplicates())
Combinations(f) == DropDuplicates(LastTwo(Mismatched(f.rows)))

\* (df.iloc[:, -2] == pair[0]) & (df.iloc[:, -1] == pair[-1])
PairMask(r, pair) == Iloc2(r) = pair[1] /\ Iloc1(r) = pair[Len(pair)]

\* df[~mask].append(df[mask])
PairOrderRestFirst(f, pair) ==
  [columns |-> f.columns,
   rows |-> SelectSeq(f.rows, LAMBDA r : ~PairMask(r, pair))
            \o SelectSeq(f.rows, LAMBDA r : PairMask(r, pair))]

\* df[mask].append(df[~mask])
PairOrder(f, pair) ==
  [columns |-> f.columns,
   rows |-> SelectSeq(f.rows, LAMBDA r : PairMask(r, pair))
            \o SelectSeq(f.rows, LAMBDA r : ~PairMask(r, pair))]

\* ------------------------------------------------------------------ dicts
\* d[k] = v
SetKey(d, key, v) == (key :> v) @@ d
\* d.pop(k) leaves d without k
Without(d, key) == [x \in DOMAIN d \ {key} |-> d[x]]

\* ----------------------------------------------------------------- images
\* missing_matrix(df, predictions): the encoded image of the frame it is
\* handed (plot.py 177-199).
MissingMatrixImage(f, predictions) ==
  [kind |-> "missing_matrix", frame |-> f, predictions |-> predictions]

\* np.unique(split['y_train'])
Unique(q) == {q[i] : i \in 1..Len(q)}

\* yellowbrick_to_img(pc) for the curve fitted and scored on a split.
PrecisionRecallImage(split) ==
  [kind |-> "precision_recall", classes |-> Unique(split.y_train)]

\* What one render (missing_matrix, or fit/score/yellowbrick_to_img) can do:
\* complete and close its figure; raise before a figure exists; raise after
\* the figure was created (msno.matrix / pc.score drew, savefig or poof
\* failed), in which case the close that follows is never executed.
RenderOutcomes == {"ok", "raise", "raise_holding"}

\* Figures left open in pyplot by a render with the given outcome.
FiguresLeft(o) == IF o = "raise_holding" THEN 1 ELSE 0

\* ------------------------------------------------------------------ state
VARIABLES
  report,        \* the report dict, mutated in place
  pc,            \* position in generate_report_visualizations, "idle" outside
  outcome,       \* how the last call ended: "none", "returned", "raised"
  error,         \* the exception that ended it: "none", "KeyError", "style", "render"
  calls,         \* number of calls started
  df,            \* local df
  combinations,  \* local combinations
  k,             \* position of the for-pair loop in combinations
  s,             \* position of the for-strategy loop in the strategy keys
  handed,        \* frame passed to the last missing_matrix call
  figures,       \* figures open in pyplot
  style,         \* process-wide matplotlib style
  styleUses,     \* matplotlib.style.use calls made by the process
  styleLog,      \* results (ok or not) of the style.use calls of the current call
  renders,       \* renders started by the process
  callRenders,   \* renders started by the current call
  given          \* the report as the caller built it, before any call

vars == <<report, pc, outcome, error, calls, df, combinations, k, s, handed,
          figures, style, styleUses, styleLog, renders, callRenders, given>>

\* ----------------------------------------------------------------- inputs
NoFrame == [columns |-> <<>>, rows |-> <<>>]

\* The split of a block: train/test partition handed to the probe classifier.
Split == [x_train |-> <<>>, y_train |-> <<0, 1>>, x_test |-> <<>>, y_test |-> <<0, 1>>]

Reverse(q) == [i \in 1..Len(q) |-> q[Len(q) + 1 - i]]

\* Frames (y, pred) with index 1..n in order.
LabelledFrames(n, labels) ==
  {Frame(<<"y", "pred">>, v) : v \in [1..n -> [1..2 -> labels]]}

\* Frames (y) with index 1..n in order.
TestFrames(n) == {Frame(<<"y">>, v) : v \in [1..n -> [1..1 -> Labels]]}

\* Result frames of a strategy: the same index labels as the test frame, in
\* the same or in the opposite row order.
ResultFrames(n) ==
  LabelledFrames(n, Labels)
    \cup {[f EXCEPT !.rows = Reverse(@)] : f \in LabelledFrames(n, Labels)}

\* A result block, with or without its split.
Block(result, withSplit) ==
  IF withSplit THEN [result |-> result, split |-> Split] ELSE [result |-> result]

\* The strategy keys of a report, in iteration order.
StrategyKeys(r) ==
  SelectSeq(StrategyNames, LAMBDA n : n \in DOMAIN r.strategy_classifications)

\* Shapes <<strategies, rows of the test frame, rows of the baseline result>>
\* of the reports whose datasets hold at most MaxTotalRows rows in all.
Shapes ==
  {sh \in (0..Len(StrategyNames)) \X (0..MaxTotalRows) \X (0..MaxTotalRows) :
     /\ sh[3] + sh[2] * sh[1] <= MaxTotalRows
     /\ (sh[1] = 0 => sh[2] = 0)}

\* The reports of one shape; at most one block lacks its split.
ReportsOf(ns, t, b) ==
  LET names == {StrategyNames[i] : i \in 1..ns} IN
  {[dataframe |-> [modified |-> test, test |-> test],
    baseline |-> Block(base, missing # "baseline"),
    strategy_classifications |-> [n \in names |-> Block(results[n], missing # n)]] :
     base \in LabelledFrames(b, Labels),
     test \in TestFrames(t),
     results \in [names -> ResultFrames(t)],
     missing \in {"none", "baseline"} \cup names}

Init ==
  /\ \E sh \in Shapes : report \in ReportsOf(sh[1], sh[2], sh[3])
  /\ given = report
  /\ pc = "idle"
  /\ outcome = "none"
  /\ error = "none"
  /\ calls = 0
  /\ df = NoFrame
  /\ combinations = <<>>
  /\ k = 1
  /\ s = 1
  /\ handed = NoFrame
  /\ figures = 0
  /\ style = "initial"
  /\ styleUses = 0
  /\ styleLog = <<>>
  /\ renders = 0
  /\ callRenders = 0

\* ------------------------------------------------------------ control flow
\* for pair in combinations: the loop body when a pair is left, else what
\* follows the loop.
PairLoop(i, combos, body, after) == IF i <= Len(combos) THEN body ELSE after

\* for strategy in report['strategy_classifications'] (lines 285-293)
StrategyLoop(i, keys) == IF i <= Len(keys) THEN "strategy_original" ELSE "baseline_curve"

\* for strategy in report['strategy_classifications'] (lines 301-307)
CurveLoop(i, keys) == IF i <= Len(keys) THEN "strategy_curve" ELSE "return"

\* A reset without the try statement around it.
ResetUncaught(ok) == ~ok

\* try: matplotlib.style.use("default") except: pass -- does a failure of the
\* reset leave the function?
ResetPropagates(ok) == FALSE

\* The package style sheet applied inside the try block, after the reset.
AfterResetInsideTry(ok) == IF ok THEN "style_package" ELSE "missing_matrix"

\* Where control goes once the try statement is left normally: the package
\* style sheet is applied whether or not the reset succeeded.
AfterReset(ok) == "style_package"

\* matplotlib.style.use(resource_filename(...)) stands outside the try.
PackageStylePropagates(ok) == ~ok

\* The caller enters generate_report_visualizations.  A caller whose call
\* raised does not go on.
Call ==
  /\ pc = "idle"
  /\ outcome # "raised"
  /\ calls < MaxCalls
  /\ pc' = "style_default"
  /\ outcome' = "none"
  /\ error' = "none"
  /\ calls' = calls + 1
  /\ styleLog' = <<>>
  /\ callRenders' = 0
  /\ df' = NoFrame
  /\ combinations' = <<>>
  /\ k' = 1
  /\ s' = 1
  /\ UNCHANGED <<report, handed, figures, style, styleUses, renders, given>>

\* lines 267-272
StyleDefault ==
  /\ pc = "style_default"
  /\ \E ok \in BOOLEAN :
       /\ style' = IF ok THEN "default" ELSE style
       /\ styleLog' = Append(styleLog, ok)
       /\ pc' = IF ResetPropagates(ok) THEN "idle" ELSE AfterReset(ok)
       /\ outcome' = IF ResetPropagates(ok) THEN "raised" ELSE outcome
       /\ error' = IF ResetPropagates(ok) THEN "style" ELSE error
  /\ styleUses' = styleUses + 1
  /\ UNCHANGED <<report, calls, df, combinations, k, s, handed, figures, renders,
                 callRenders, given>>

\* line 273
StylePackage ==
  /\ pc = "style_package"
  /\ \E ok \in BOOLEAN :
       /\ style' = IF ok THEN "package" ELSE style
       /\ styleLog' = Append(styleLog, ok)
       /\ pc' = IF PackageStylePropagates(ok) THEN "idle" ELSE "missing_matrix"
       /\ outcome' = IF PackageStylePropagates(ok) THEN "raised" ELSE outcome
       /\ error' = IF PackageStylePropagates(ok) THEN "style" ELSE error
  /\ styleUses' = styleUses + 1
  /\ UNCHANGED <<report, calls, df, combinations, k, s, handed, figures, renders,
                 callRenders, given>>

\* One call of missing_matrix(f, predictions) (lines 190-199) with outcome o:
\* its effect on the renderer-side state.
MissingMatrixCall(f, o) ==
  /\ handed' = f
  /\ figures' = figures + FiguresLeft(o)
  /\ renders' = renders + 1
  /\ callRenders' = callRenders + 1

\* line 275
GlobalMissingMatrix ==
  /\ pc = "missing_matrix"
  /\ \E o \in RenderOutcomes :
       /\ MissingMatrixCall(report.dataframe.modified, o)
       /\ IF o = "ok"
          THEN /\ report' = SetKey(report, "missing_matrix",
                                   MissingMatrixImage(report.dataframe.modified, FALSE))
               /\ pc' = "baseline_original"
               /\ outcome' = outcome
               /\ error' = error
          ELSE /\ report' = report
               /\ pc' = "idle"
               /\ outcome' = "raised"
               /\ error' = "render"
  /\ UNCHANGED <<calls, df, combinations, k, s, style, styleUses, styleLog, given>>

\* The entry of prediction_matrixes built for the whole frame (lines 279, 288).
OriginalMatrix(f) ==
  [name |-> "Original Dataset", image |-> MissingMatrixImage(f, TRUE)]

\* The entry built for one pair (lines 282-283, 291-292).
PairMatrix(f, pair) ==
  [name |-> PairName(pair), image |-> MissingMatrixImage(PairOrder(f, pair), TRUE)]

\* lines 278-280
BaselineOriginal ==
  /\ pc = "baseline_original"
  /\ LET f == report.baseline.result IN
     \E o \in RenderOutcomes :
       /\ MissingMatrixCall(f, o)
       /\ df' = f
       /\ IF o = "ok"
          THEN /\ report' = [report EXCEPT !.baseline =
                               SetKey(@, "prediction_matrixes", <<OriginalMatrix(f)>>)]
               /\ combinations' = Combinations(f)
               /\ pc' = PairLoop(1, Combinations(f), "baseline_pairs",
                                 StrategyLoop(1, StrategyKeys(report)))
               /\ outcome' = outcome
               /\ error' = error
          ELSE /\ report' = report
               /\ combinations' = combinations
               /\ pc' = "idle"
               /\ outcome' = "raised"
               /\ error' = "render"
  /\ k' = 1
  /\ s' = 1
  /\ UNCHANGED <<calls, style, styleUses, styleLog, given>>

\* lines 281-284, one iteration
BaselinePair ==
  /\ pc = "baseline_pairs"
  /\ LET pair == combinations[k] IN
     \E o \in RenderOutcomes :
       /\ MissingMatrixCall(PairOrder(df, pair), o)
       /\ IF o = "ok"
          THEN /\ report' = [report EXCEPT !.baseline.prediction_matrixes =
                               Append(@, PairMatrix(df, pair))]
               /\ k' = k + 1
               /\ pc' = PairLoop(k + 1, combinations, "baseline_pairs",
                                 StrategyLoop(1, StrategyKeys(report)))
               /\ outcome' = outcome
               /\ error' = error
          ELSE /\ report' = report
               /\ k' = k
               /\ pc' = "idle"
               /\ outcome' = "raised"
               /\ error' = "render"
  /\ UNCHANGED <<calls, df, combinations, s, style, styleUses, styleLog, given>>

\* lines 286-287: the frame the strategy's matrices are built from, and the
\* object it is (a copy of the test frame, or the test frame itself).
StrategyFrame(r, name) ==
  LET c == Copy(r.dataframe.test) IN
  [alias |-> c.alias,
   frame |-> SetColumn(c.frame, "pred",
                       Column(r.strategy_classifications[name].result, "pred"))]

\* lines 286-289
StrategyOriginal ==
  /\ pc = "strategy_original"
  /\ LET name == StrategyKeys(report)[s]
         built == StrategyFrame(report, name)
         f == built.frame
         r1 == IF built.alias THEN [report EXCEPT !.dataframe.test = f] ELSE report
     IN
     \E o \in RenderOutcomes :
       /\ MissingMatrixCall(f, o)
       /\ df' = f
       /\ IF o = "ok"
          THEN /\ report' = [r1 EXCEPT !.strategy_classifications[name] =
                               SetKey(@, "prediction_matrixes", <<OriginalMatrix(f)>>)]
               /\ combinations' = Combinations(f)
               /\ pc' = PairLoop(1, Combinations(f), "strategy_pairs",
                                 StrategyLoop(s + 1, StrategyKeys(report)))
               /\ s' = IF Combinations(f) = <<>> THEN s + 1 ELSE s
               /\ outcome' = outcome
               /\ error' = error
          ELSE /\ report' = r1
               /\ combinations' = combinations
               /\ pc' = "idle"
               /\ s' = s
               /\ outcome' = "raised"
               /\ error' = "render"
  /\ k' = 1
  /\ UNCHANGED <<calls, style, styleUses, styleLog, given>>

\* lines 290-293, one iteration
StrategyPair ==
  /\ pc = "strategy_pairs"
  /\ LET name == StrategyKeys(report)[s]
         pair == combinations[k]
     IN
     \E o \in RenderOutcomes :
       /\ MissingMatrixCall(PairOrder(df, pair), o)
       /\ IF o = "ok"
          THEN /\ report' = [report EXCEPT
                               !.strategy_classifications[name].prediction_matrixes =
                                 Append(@, PairMatrix(df, pair))]
               /\ k' = k + 1
               /\ pc' = PairLoop(k + 1, combinations, "strategy_pairs",
                                 StrategyLoop(s + 1, StrategyKeys(report)))
               /\ s' = IF k + 1 > Len(combinations) THEN s + 1 ELSE s
               /\ outcome' = outcome
               /\ error' = error
          ELSE /\ report' = report
               /\ k' = k
               /\ pc' = "idle"
               /\ s' = s
               /\ outcome' = "raised"
               /\ error' = "render"
  /\ UNCHANGED <<calls, df, combinations, style, styleUses, styleLog, given>>

\* lines 295-300 and 302-307 on one block: split = block.pop("split") raises
\* KeyError when the key is absent; otherwise the key is gone before the
\* classifier is fitted, scored and drawn, and the curve is stored only when
\* all of that succeeded.
CurveBlock(block, o) ==
  IF o = "ok"
  THEN SetKey(Without(block, "split"), "precision_recall_curve",
              PrecisionRecallImage(block.split))
  ELSE Without(block, "split")

\* lines 295-300
BaselineCurve ==
  /\ pc = "baseline_curve"
  /\ IF "split" \notin DOMAIN report.baseline
     THEN /\ pc' = "idle"
          /\ outcome' = "raised"
          /\ error' = "KeyError"
          /\ UNCHANGED <<report, figures, renders, callRenders>>
     ELSE \E o \in RenderOutcomes :
            /\ report' = [report EXCEPT !.baseline = CurveBlock(@, o)]
            /\ figures' = figures + FiguresLeft(o)
            /\ renders' = renders + 1
            /\ callRenders' = callRenders + 1
            /\ pc' = IF o = "ok" THEN CurveLoop(1, StrategyKeys(report)) ELSE "idle"
            /\ outcome' = IF o = "ok" THEN outcome ELSE "raised"
            /\ error' = IF o = "ok" THEN error ELSE "render"
  /\ s' = 1
  /\ UNCHANGED <<calls, df, combinations, k, handed, style, styleUses, styleLog, given>>

\* lines 301-307, one iteration
StrategyCurve ==
  /\ pc = "strategy_curve"
  /\ LET name == StrategyKeys(report)[s] IN
     IF "split" \notin DOMAIN report.strategy_classifications[name]
     THEN /\ pc' = "idle"
          /\ outcome' = "raised"
          /\ error' = "KeyError"
          /\ UNCHANGED <<report, figures, renders, callRenders, s>>
     ELSE \E o \in RenderOutcomes :
            /\ report' = [report EXCEPT !.strategy_classifications[name] = CurveBlock(@, o)]
            /\ figures' = figures + FiguresLeft(o)
            /\ renders' = renders + 1
            /\ callRenders' = callRenders + 1
            /\ pc' = IF o = "ok" THEN CurveLoop(s + 1, StrategyKeys(report)) ELSE "idle"
            /\ s' = IF o = "ok" THEN s + 1 ELSE s
            /\ outcome' = IF o = "ok" THEN outcome ELSE "raised"
            /\ error' = IF o = "ok" THEN error ELSE "render"
  /\ UNCHANGED <<calls, df, combinations, k, handed, style, styleUses, styleLog, given>>

\* line 309
Return ==
  /\ pc = "return"
  /\ pc' = "idle"
  /\ outcome' = "returned"
  /\ UNCHANGED <<report, error, calls, df, combinations, k, s, handed, figures, style,
                 styleUses, styleLog, renders, callRenders, given>>

Next ==
  \/ Call
  \/ StyleDefault
  \/ StylePackage
  \/ GlobalMissingMatrix
  \/ BaselineOriginal
  \/ BaselinePair
  \/ StrategyOriginal
  \/ StrategyPair
  \/ BaselineCurve
  \/ StrategyCurve
  \/ Return

Spec == Init /\ [][Next]_vars
\* --------------------------------------------- the extraction on its own
\* The pair extraction (line 280) and the per-pair row order (line 283)
\* applied to every frame of at most MaxDfRows rows over PairLabels, held by
\* a report that has nothing else in it.
InitPairs ==
  /\ \E n \in 0..MaxDfRows : df \in LabelledFrames(n, PairLabels)
  /\ report = [dataframe |-> [modified |-> NoFrame, test |-> NoFrame],
               baseline |-> Block(df, TRUE),
               strategy_classifications |-> <<>>]
  /\ given = report
  /\ pc = "extract"
  /\ outcome = "none"
  /\ error = "none"
  /\ calls = 0
  /\ combinations = <<>>
  /\ k = 1
  /\ s = 1
  /\ handed = NoFrame
  /\ figures = 0
  /\ style = "initial"
  /\ styleUses = 0
  /\ styleLog = <<>>
  /\ renders = 0
  /\ callRenders = 0

\* line 280
Extract ==
  /\ pc = "extract"
  /\ combinations' = Combinations(df)
  /\ k' = 1
  /\ pc' = PairLoop(1, Combinations(df), "reorder", "extracted")
  /\ UNCHANGED <<report, outcome, error, calls, df, s, handed, figures, style,
                 styleUses, styleLog, renders, callRenders, given>>

\* line 283: the frame built for combinations[k] and passed to missing_matrix
Reorder ==
  /\ pc = "reorder"
  /\ handed' = PairOrder(df, combinations[k])
  /\ k' = k + 1
  /\ pc' = PairLoop(k + 1, combinations, "reorder", "extracted")
  /\ UNCHANGED <<report, outcome, error, calls, df, combinations, s, figures, style,
                 styleUses, styleLog, renders, callRenders, given>>

NextPairs ==
  \/ Extract
  \/ Reorder

SpecPairs == InitPairs /\ [][NextPairs]_vars
\* ============================================================ properties
\* (actual, predicted) of a row: the values of its last two columns.
Actual(r) == r.vals[Len(r.vals) - 1]
Predicted(r) == r.vals[Len(r.vals)]
RowPair(f, i) == <<Actual(f.rows[i]), Predicted(f.rows[i])>>

\* Positions of the misclassified rows of a frame.
WrongRows(f) == {i \in 1..Len(f.rows) : Actual(f.rows[i]) # Predicted(f.rows[i])}

\* Position of the first misclassified row carrying pair p.
FirstAt(f, p) ==
  CHOOSE i \in WrongRows(f) :
    /\ RowPair(f, i) = p
    /\ \A j \in WrongRows(f) : RowPair(f, j) = p => i <= j

\* c lists the error pairs of f once each, in order of first occurrence.
IsExtraction(c, f) ==
  /\ \A j \in 1..Len(c) : c[j][1] # c[j][2]
  /\ {c[j] : j \in 1..Len(c)} = {RowPair(f, i) : i \in WrongRows(f)}
  /\ \A i, j \in 1..Len(c) :
       i < j => c[i] # c[j] /\ FirstAt(f, c[i]) < FirstAt(f, c[j])

\* h holds the rows of f, those matching p first, each group in f's order.
StablePartition(h, f, p) ==
  LET match(r) == Actual(r) = p[1] /\ Predicted(r) = p[2]
      pos(r) == CHOOSE i \in 1..Len(f.rows) : f.rows[i] = r
  IN  /\ h.columns = f.columns
      /\ Len(h.rows) = Len(f.rows)
      /\ \A i \in 1..Len(f.rows) :
           Cardinality({j \in 1..Len(h.rows) : h.rows[j] = f.rows[i]}) = 1
      /\ \A i, j \in 1..Len(h.rows) :
           i < j => /\ ~(~match(h.rows[i]) /\ match(h.rows[j]))
                    /\ (match(h.rows[i]) = match(h.rows[j])
                          => pos(h.rows[i]) < pos(h.rows[j]))

\* The blocks of a report and their contents.
Blocks(r) == {"baseline"} \cup DOMAIN r.strategy_classifications
BlockOf(r, b) == IF b = "baseline" THEN r.baseline ELSE r.strategy_classifications[b]

\* The prediction of a strategy's result frame for the row labelled idx.
PredOf(result, idx) ==
  LET i == CHOOSE j \in 1..Len(result.rows) : result.rows[j].idx = idx
  IN  result.rows[i].vals[ColPos(result.columns, "pred")]

\* The test frame with the strategy's predictions as its last column, each
\* prediction placed on the row that carries its index label.
AlignedFrame(r, n) ==
  LET test == r.dataframe.test
      result == r.strategy_classifications[n].result
  IN  [columns |-> Append(test.columns, "pred"),
       rows |-> [i \in 1..Len(test.rows) |->
                   [idx |-> test.rows[i].idx,
                    vals |-> Append(test.rows[i].vals,
                                    PredOf(result, test.rows[i].idx))]]]

\* The dataset a block's matrices are about.
BlockDataset(r, b) == IF b = "baseline" THEN r.baseline.result ELSE AlignedFrame(r, b)

\* Distinct (actual, predicted) mismatch pairs of a frame.
MismatchPairs(f) == {RowPair(f, i) : i \in WrongRows(f)}

NamesOf(pm) == [i \in 1..Len(pm) |-> pm[i].name]

\* "Original Dataset", then one name per error pair of f in extraction order.
ExpectedNames(f) ==
  <<"Original Dataset">>
    \o [i \in 1..Len(Combinations(f)) |-> PairName(Combinations(f)[i])]

\* Some block of the report has no split.
Malformed(r) == \E b \in Blocks(r) : "split" \notin DOMAIN BlockOf(r, b)

C2_Extraction ==
  pc \in {"reorder", "extracted"} => IsExtraction(combinations, df)

\* Rows (0,0),(0,1),(1,0),(0,1) give [(0,1),(1,0)].
C2_Witness ==
  /\ pc = "extracted"
  /\ LastTwo(df.rows) = <<<<0, 0>>, <<0, 1>>, <<1, 0>>, <<0, 1>>>>
  /\ combinations = <<<<0, 1>>, <<1, 0>>>>

\* C3: the frame handed to the renderer for a pair is a stable partition of
\* df: every row once, rows matching the pair first, each group in the order
\* it had in df.
C3_StablePartition ==
  (pc \in {"reorder", "extracted"} /\ k > 1)
    => StablePartition(handed, df, combinations[k - 1])

\* Matching rows 2 and 4 were moved in front of rows 1 and 3.
C3_Witness ==
  /\ pc \in {"reorder", "extracted"}
  /\ k > 1
  /\ Len(df.rows) = 4
  /\ [i \in 1..4 |-> handed.rows[i].idx] = <<2, 4, 1, 3>>

\* C4: a report with a block lacking split makes the call fail without
\* having touched the report.
C4_NoPartialMutation ==
  (calls = 1 /\ Malformed(given) /\ outcome = "raised" /\ error = "KeyError")
    => report = given

\* C5: a second call on an assembled report fails on the missing split
\* before it renders or stores anything again.
C5_SecondCallFailsFast ==
  (calls >= 2 /\ outcome = "raised" /\ error = "KeyError") => callRenders = 0

\* C6 as stated: no failure of a style-configuration call leaves the function.
C6_StyleFailureNeverPropagates == error # "style"

\* C6 amended: a failure of the style reset is swallowed and the function
\* goes on to apply the package style sheet; only a failure of the package
\* style sheet propagates, and it always does.
C6_ResetFailureSwallowed ==
  /\ Len(styleLog) = 1 => pc = "style_package" /\ outcome = "none"
  /\ error = "style" => Len(styleLog) = 2 /\ ~styleLog[2]
  /\ (Len(styleLog) = 2 /\ ~styleLog[2]) => outcome = "raised" /\ error = "style"

\* The reset failed and the complete report was returned all the same.
C6_Witness ==
  /\ outcome = "returned"
  /\ Len(styleLog) = 2
  /\ ~styleLog[1]
  /\ "missing_matrix" \in DOMAIN report
  /\ "precision_recall_curve" \in DOMAIN report.baseline

\* C7: no drawing surface is still held once a render step is left.
C7_SurfacesReleased == figures = 0

\* C8 as stated: every block's matrices are named after the error pairs of
\* the block's own result frame, in extraction order.
C8_NamedFromOwnResult ==
  outcome = "returned" =>
    \A b \in Blocks(report) :
      NamesOf(BlockOf(report, b).prediction_matrixes)
        = ExpectedNames(BlockOf(given, b).result)

\* C8 amended: the baseline's matrices are named after the error pairs of
\* baseline.result; a strategy's after the error pairs of the test frame
\* extended with the strategy's pred column aligned on the index labels.
C8_NamedFromBuiltFrame ==
  outcome = "returned" =>
    \A b \in Blocks(report) :
      NamesOf(BlockOf(report, b).prediction_matrixes)
        = ExpectedNames(BlockDataset(given, b))

\* A strategy whose matrices differ from what its own result frame gives.
C8_Witness ==
  /\ outcome = "returned"
  /\ \E n \in DOMAIN report.strategy_classifications :
       /\ Len(report.strategy_classifications[n].prediction_matrixes) = 3
       /\ NamesOf(report.strategy_classifications[n].prediction_matrixes)
            # ExpectedNames(given.strategy_classifications[n].result)

\* C9 as stated: once a render has started, no style-configuration call is
\* made any more.
C9_NoStyleAfterRender == [][renders > 0 => styleUses' = styleUses]_vars

\* C9 amended: every call makes its two style.use calls before its first
\* render and none after it, renders only once the package style sheet was
\* applied, and the configuration is applied again by each later call.
C9_StylePerCall ==
  /\ Len(styleLog) <= 2
  /\ callRenders > 0 => Len(styleLog) = 2 /\ styleLog[2]
  /\ calls >= 1 => styleUses = 2 * (calls - 1) + Len(styleLog)

\* A second call that configured the style again and then rendered.
C9_Witness ==
  /\ calls = 2
  /\ callRenders > 0
  /\ renders > callRenders
  /\ styleUses = 4

\* C10: when the call is over the input datasets are what they were: the
\* dataframe entries and every block's result.
C10_InputsUnchanged ==
  (pc = "idle" /\ outcome \in {"returned", "raised"}) =>
    /\ report.dataframe = given.dataframe
    /\ \A b \in Blocks(given) : BlockOf(report, b).result = BlockOf(given, b).result

\* A strategy got its pred column and a reordered per-pair frame.
C10_Witness ==
  /\ outcome = "returned"
  /\ \E n \in DOMAIN report.strategy_classifications :
       LET pm == report.strategy_classifications[n].prediction_matrixes IN
       /\ Len(pm) >= 2
       /\ pm[1].image.frame.columns = <<"y", "pred">>
       /\ pm[2].image.frame.rows # pm[1].image.frame.rows
====
